---- MODULE Spec2Model ----
(***************************************************************************)
(* Construction material calculator (src/app.py): the rate and coefficient *)
(* tables, calculate_materials, calculate_cost, get_ai_suggestions and the *)
(* Calculate handler of the Streamlit script.                              *)
(*                                                                         *)
(* Numbers are exact rationals <<n, d>> in lowest terms (d > 0).  Python   *)
(* computes in IEEE-754 doubles; the last-bit error of a double is not     *)
(* modelled.  round(x, 2) and the ".2f" format round to two decimals,      *)
(* ties to even, as Python does on an exactly representable value.         *)
(* Texts are sequences of words.                                           *)
(***************************************************************************)
EXTENDS Integers, Sequences, FiniteSets, TLC

VARIABLES
    MATERIAL_RATES,             \* module global, app.py:12
    CONSTRUCTION_COEFFICIENTS,  \* module global, app.py:22
    pc,               \* position of the script run
    request,          \* widget values read by the run
    area,
    materials,        \* material -> quantity (after line 135: with wastage)
    cost_breakdown,   \* material -> [quantity, rate, unit, cost]
    material_cost,
    labor_cost,
    total_cost,
    suggestions,      \* text handed to st.markdown at line 199
    material_data,    \* rows of the breakdown table (formatted)
    report_content,   \* <<>> or <<the "costs" object of the report>>
    delivered,        \* page elements sent to the browser by this run
    caught,           \* <<>> or <<str(e)>> of the exception caught at line 96
    raised,           \* exception that ended the run, "none" if none
    earlier           \* history: <<>> or <<an earlier run's request and result>>

vars == <<MATERIAL_RATES, CONSTRUCTION_COEFFICIENTS, pc, request, area,
          materials, cost_breakdown, material_cost, labor_cost, total_cost,
          suggestions, caught, material_data, report_content, delivered,
          raised, earlier>>

tables == <<MATERIAL_RATES, CONSTRUCTION_COEFFICIENTS>>

estimate == <<area, materials, cost_breakdown, material_cost, labor_cost,
              total_cost>>

----------------------------------------------------------------------------
(* Bounds of the model.                                                    *)

\* lengths are sampled in half feet (the widget's step), from 1.0 ft
\* (= 2 halves, the widget's min_value) up to MaxHalf halves
MaxHalf == 3

----------------------------------------------------------------------------
(* Exact rational arithmetic.                                              *)

Abs(n) == IF n < 0 THEN -n ELSE n

RECURSIVE GCD(_, _)
GCD(a, b) == IF b = 0 THEN a ELSE GCD(b, a % b)

\* n/d in lowest terms, d > 0
Rat(n, d) == LET g == GCD(Abs(n), d) IN <<n \div g, d \div g>>

Int2Rat(n) == <<n, 1>>
Zero == <<0, 1>>

Mul(a, b) ==
    LET g1 == GCD(Abs(a[1]), b[2])
        g2 == GCD(Abs(b[1]), a[2])
    IN  Rat((a[1] \div g1) * (b[1] \div g2), (a[2] \div g2) * (b[2] \div g1))

Add(a, b) ==
    LET g == GCD(a[2], b[2])
    IN  Rat(a[1] * (b[2] \div g) + b[1] * (a[2] \div g), (a[2] \div g) * b[2])

Neg(a) == <<-a[1], a[2]>>
Sub(a, b) == Add(a, Neg(b))

\* a / b for b # 0
Div(a, b) ==
    IF b[1] > 0 THEN Mul(a, <<b[2], b[1]>>) ELSE Mul(a, <<-b[2], -b[1]>>)

Less(a, b) ==
    LET g == GCD(a[2], b[2])
    IN  a[1] * (b[2] \div g) < b[1] * (a[2] \div g)

Leq(a, b) == a = b \/ Less(a, b)

AbsR(a) == <<Abs(a[1]), a[2]>>

\* the nearest multiple of 1/unit, ties to the even multiple
RoundTo(a, unit) ==
    LET n == a[1] * unit
        f == n \div a[2]
        r == n % a[2]
        k == IF 2 * r < a[2] THEN f
             ELSE IF 2 * r > a[2] THEN f + 1
             ELSE IF f % 2 = 0 THEN f ELSE f + 1
    IN  Rat(k, unit)

----------------------------------------------------------------------------
(* Python's numeric conversions used by the script.                        *)

\* a plausible slip at lines 68, 71: truncation instead of rounding
truncate2(x) == Rat((x[1] * 100) \div x[2], 100)

\* round(x, 2)
round2(x) == RoundTo(x, 100)

\* f"{x:.2f}" and f"{x:,.2f}": the number the printed digits denote
fmt2f(x) == RoundTo(x, 100)

\* f"{x:,.0f}"
fmt0f(x) == RoundTo(x, 1)

----------------------------------------------------------------------------
(* The tables, app.py:12-43.                                               *)

ShippedRates ==
    "cement" :> [rate |-> 400, unit |-> "per bag"] @@
    "steel" :> [rate |-> 65000, unit |-> "per MT"] @@
    "bricks" :> [rate |-> 7000, unit |-> "per 1000 nos"] @@
    "sand" :> [rate |-> 1500, unit |-> "per cum"] @@
    "aggregate_20mm" :> [rate |-> 1200, unit |-> "per cum"] @@
    "aggregate_10mm" :> [rate |-> 1300, unit |-> "per cum"]

ShippedCoefficients ==
    "RCC Slab (4 inch)" :>
        ("cement" :> Rat(45, 10) @@ "steel" :> Rat(8, 100) @@
         "sand" :> Rat(25, 100) @@ "aggregate_20mm" :> Rat(5, 10)) @@
    "Brick Wall (9 inch)" :>
        ("cement" :> Rat(30, 10) @@ "bricks" :> Int2Rat(1350) @@
         "sand" :> Rat(35, 100)) @@
    "Plaster (12mm)" :>
        ("cement" :> Rat(15, 10) @@ "sand" :> Rat(15, 100)) @@
    "Flooring (IPS)" :>
        ("cement" :> Rat(20, 10) @@ "sand" :> Rat(18, 100) @@
         "aggregate_10mm" :> Rat(15, 100))

EmptyMap == [m \in {} |-> Zero]

----------------------------------------------------------------------------
(* The inputs.                                                             *)

Halves(h) == Rat(h, 2)

\* the width widget's minimum and one step above it, app.py:114
WidthSamples == {Halves(2), Halves(3)}

\* the slider's minimum, default and maximum, app.py:125
WastageSamples == {0, 5, 20}

\* what the sidebar widgets (app.py:112-125) can hand to a run
GridRequests ==
    [length : {Halves(h) : h \in 2..MaxHalf},
     width : WidthSamples,
     construction_type : DOMAIN ShippedCoefficients,
     include_labor : BOOLEAN,
     wastage_factor : WastageSamples]

\* the widgets' default dimensions and wastage, app.py:112, 114, 125
DefaultRequests ==
    [length : {Int2Rat(17)},
     width : {Int2Rat(70)},
     construction_type : {"RCC Slab (4 inch)", "Plaster (12mm)"},
     include_labor : BOOLEAN,
     wastage_factor : {5}]

UIRequests == GridRequests \cup DefaultRequests

\* what a caller that bypasses the widgets can hand to the functions
CallerRequests ==
    [length : {Zero, Int2Rat(1)},
     width : {Int2Rat(-5), Int2Rat(1)},
     construction_type : DOMAIN ShippedCoefficients \cup {"Unknown"},
     include_labor : BOOLEAN,
     wastage_factor : {-1, 0, 20, 21}]

AnyRequests == UIRequests \cup CallerRequests

NoRequest ==
    [length |-> Zero, width |-> Zero, construction_type |-> "",
     include_labor |-> FALSE, wastage_factor |-> 0]

\* materials mappings handed directly to calculate_cost
CallerMaterials ==
    UNION {[ms -> {Rat(1, 8), Int2Rat(2)}] :
              ms \in SUBSET {"cement", "sand", "timber"}}

\* what the provider can answer, and str(e) of what it can raise
ProviderTexts == {<<>>, <<"Use", "fly", "ash", "bricks">>}
ProviderErrors == {<<>>, <<"429", "quota", "exceeded">>, <<"timed", "out">>}

----------------------------------------------------------------------------
(* calculate_materials, app.py:45-56.                                      *)

calculate_materials(length, width, construction_type) ==
    LET area_ == Mul(length, width)
        area_in_100sqft == Div(area_, Int2Rat(100))
        coefficients ==
            IF construction_type \in DOMAIN CONSTRUCTION_COEFFICIENTS
            THEN CONSTRUCTION_COEFFICIENTS[construction_type]
            ELSE EmptyMap
    IN  [materials |->
             [m \in DOMAIN coefficients |->
                  Mul(coefficients[m], area_in_100sqft)],
         area |-> area_]

\* a plausible slip at line 135: the factor without the "1 +"
WastageMultiplierWithoutOne(wastage_factor) == Rat(wastage_factor, 100)

\* a plausible slip at line 135: the wastage taken off instead of added
WastageMultiplierSubtracted(wastage_factor) ==
    Sub(Int2Rat(1), Rat(wastage_factor, 100))

\* app.py:135
WastageMultiplier(wastage_factor) ==
    Add(Int2Rat(1), Rat(wastage_factor, 100))

ApplyWastage(ms, wastage_factor) ==
    [k \in DOMAIN ms |-> Mul(ms[k], WastageMultiplier(wastage_factor))]

----------------------------------------------------------------------------
(* calculate_cost, app.py:58-75.                                           *)

\* a plausible slip at line 64: membership tested in the other table
PricedByWrongTable(ms) ==
    {m \in DOMAIN ms : m \in DOMAIN CONSTRUCTION_COEFFICIENTS}

\* line 64
Priced(ms) == {m \in DOMAIN ms : m \in DOMAIN MATERIAL_RATES}

\* line 66
Cost(quantity, rate) == Mul(quantity, Int2Rat(rate))

\* lines 67-72
LineItem(material, quantity) ==
    LET rate == MATERIAL_RATES[material].rate
    IN  [quantity |-> round2(quantity),
         rate |-> rate,
         unit |-> MATERIAL_RATES[material].unit,
         cost |-> round2(Cost(quantity, rate))]

\* a plausible slip at line 73: the rounded cost of line 71 is accumulated
RECURSIVE TotalOfRounded(_, _)
TotalOfRounded(ms, S) ==
    IF S = {} THEN Zero
    ELSE LET m == CHOOSE x \in S : TRUE
         IN  Add(round2(Cost(ms[m], MATERIAL_RATES[m].rate)),
                 TotalOfRounded(ms, S \ {m}))

\* lines 61, 73: total_cost = 0, then total_cost += cost per priced material
RECURSIVE Total(_, _)
Total(ms, S) ==
    IF S = {} THEN Zero
    ELSE LET m == CHOOSE x \in S : TRUE
         IN  Add(Cost(ms[m], MATERIAL_RATES[m].rate), Total(ms, S \ {m}))

calculate_cost(ms) ==
    [cost_breakdown |-> [m \in Priced(ms) |-> LineItem(m, ms[m])],
     total_cost |-> Total(ms, Priced(ms))]

\* a plausible slip at line 141: the checkbox is not consulted
LaborCostAlways(material_cost_, include_labor) ==
    Mul(material_cost_, Rat(3, 10))

\* line 141
LaborCost(material_cost_, include_labor) ==
    IF include_labor THEN Mul(material_cost_, Rat(3, 10)) ELSE Zero

----------------------------------------------------------------------------
(* get_ai_suggestions, app.py:77-97.                                       *)

\* a plausible slip at line 97: a fixed message, the exception dropped
FallbackWithoutReason(reason) == <<"AI", "suggestions", "unavailable">>

\* line 97: f"AI suggestions unavailable: {str(e)}"
Fallback(reason) == <<"AI", "suggestions", "unavailable:">> \o reason

----------------------------------------------------------------------------
(* The script run, app.py:130-241.                                         *)

Init ==
    /\ MATERIAL_RATES = ShippedRates
    /\ CONSTRUCTION_COEFFICIENTS = ShippedCoefficients
    /\ pc = "idle"
    /\ request = NoRequest
    /\ area = Zero
    /\ materials = EmptyMap
    /\ cost_breakdown = EmptyMap
    /\ material_cost = Zero
    /\ labor_cost = Zero
    /\ total_cost = Zero
    /\ suggestions = <<>>
    /\ caught = <<>>
    /\ material_data = EmptyMap
    /\ report_content = <<>>
    /\ delivered = {}
    /\ raised = "none"
    /\ earlier = <<>>

\* a plausible slip at lines 51-54: the profile's own mapping is scaled in
\* place instead of a fresh one being filled
CalculateInPlace(req) ==
    /\ pc = "idle"
    /\ LET cm == calculate_materials(req.length, req.width,
                                     req.construction_type)
           ms == ApplyWastage(cm.materials, req.wastage_factor)
           cc == calculate_cost(ms)
           labor == LaborCost(cc.total_cost, req.include_labor)
       IN  /\ area' = cm.area
           /\ materials' = ms
           /\ cost_breakdown' = cc.cost_breakdown
           /\ material_cost' = cc.total_cost
           /\ labor_cost' = labor
           /\ total_cost' = Add(cc.total_cost, labor)
           /\ CONSTRUCTION_COEFFICIENTS' =
                  [CONSTRUCTION_COEFFICIENTS
                      EXCEPT ![req.construction_type] = cm.materials]
    /\ request' = req
    /\ pc' = "computed"
    /\ UNCHANGED <<MATERIAL_RATES, suggestions, caught, material_data,
                   report_content, delivered, raised, earlier>>

\* lines 130-142: the button was pressed with the widgets holding req
Calculate(req) ==
    /\ pc = "idle"
    /\ LET cm == calculate_materials(req.length, req.width,
                                     req.construction_type)
           ms == ApplyWastage(cm.materials, req.wastage_factor)
           cc == calculate_cost(ms)
           labor == LaborCost(cc.total_cost, req.include_labor)
       IN  /\ area' = cm.area
           /\ materials' = ms
           /\ cost_breakdown' = cc.cost_breakdown
           /\ material_cost' = cc.total_cost
           /\ labor_cost' = labor
           /\ total_cost' = Add(cc.total_cost, labor)
    /\ request' = req
    /\ pc' = "computed"
    /\ UNCHANGED <<tables, suggestions, caught, material_data,
                   report_content, delivered, raised, earlier>>

\* lines 159-166
MaterialData(cb) ==
    [m \in DOMAIN cb |->
        [Quantity |-> fmt2f(cb[m].quantity),
         Unit |-> cb[m].unit,
         Rate |-> cb[m].rate,
         Cost |-> fmt2f(cb[m].cost)]]

\* lines 144-193: metrics, breakdown table, chart, summary; line 193 divides
\* by the area
Display ==
    /\ pc = "computed"
    /\ material_data' = MaterialData(cost_breakdown)
    /\ IF area = Zero
       THEN /\ delivered' = delivered \cup {"metrics", "table", "chart"}
            /\ raised' = "ZeroDivisionError"
            /\ pc' = "crashed"
       ELSE /\ delivered' =
                  delivered \cup {"metrics", "table", "chart", "summary"}
            /\ raised' = raised
            /\ pc' = "displayed"
    /\ UNCHANGED <<tables, request, estimate, suggestions, caught,
                   report_content, earlier>>

\* lines 196-198, 79-94: get_ai_suggestions sends the prompt and waits
CallAdvisory ==
    /\ pc = "displayed"
    /\ pc' = "advising"
    /\ UNCHANGED <<tables, request, estimate, suggestions, caught,
                   material_data, report_content, delivered, raised, earlier>>

\* lines 94-95, 199: the provider answers
ProviderReturns(text) ==
    /\ pc = "advising"
    /\ suggestions' = text
    /\ delivered' = delivered \cup {"suggestions"}
    /\ pc' = "advised"
    /\ UNCHANGED <<tables, request, estimate, caught, material_data,
                   report_content, raised, earlier>>

\* lines 96-97, 199: the provider call raises an Exception e, str(e) = reason
ProviderFails(reason) ==
    /\ pc = "advising"
    /\ caught' = <<reason>>
    /\ suggestions' = Fallback(reason)
    /\ delivered' = delivered \cup {"suggestions"}
    /\ pc' = "advised"
    /\ UNCHANGED <<tables, request, estimate, material_data, report_content,
                   raised, earlier>>

\* lines 213-218
ReportCosts ==
    [material_cost |-> material_cost,
     labor_cost |-> labor_cost,
     total_cost |-> total_cost,
     cost_per_sqft |-> Div(total_cost, area)]

\* lines 201-241: the report and the two download buttons
Report ==
    /\ pc = "advised"
    /\ report_content' = <<ReportCosts>>
    /\ delivered' = delivered \cup {"json", "csv"}
    /\ pc' = "done"
    /\ UNCHANGED <<tables, request, estimate, suggestions, caught,
                   material_data, raised, earlier>>

\* a rerun of the script without the button pressed (line 130 is false):
\* a fresh execution, the previous run's values and page elements are gone
Rerun ==
    /\ pc \in {"done", "crashed", "costed"}
    /\ pc' = "idle"
    /\ request' = NoRequest
    /\ area' = Zero
    /\ materials' = EmptyMap
    /\ cost_breakdown' = EmptyMap
    /\ material_cost' = Zero
    /\ labor_cost' = Zero
    /\ total_cost' = Zero
    /\ suggestions' = <<>>
    /\ caught' = <<>>
    /\ material_data' = EmptyMap
    /\ report_content' = <<>>
    /\ delivered' = {}
    /\ raised' = "none"
    /\ UNCHANGED <<tables, earlier>>

\* history: the finished run's request and result are remembered
Current ==
    [request |-> request, area |-> area, materials |-> materials,
     cost_breakdown |-> cost_breakdown, material_cost |-> material_cost,
     labor_cost |-> labor_cost, total_cost |-> total_cost]

NoteResult ==
    /\ pc = "done"
    /\ earlier # <<Current>>
    /\ earlier' = <<Current>>
    /\ UNCHANGED <<tables, pc, request, estimate, suggestions, caught,
                   material_data, report_content, delivered, raised>>

\* calculate_cost (lines 58-75) called directly on a materials mapping
CostCall(ms) ==
    /\ pc = "idle"
    /\ materials' = ms
    /\ cost_breakdown' = calculate_cost(ms).cost_breakdown
    /\ material_cost' = calculate_cost(ms).total_cost
    /\ pc' = "costed"
    /\ UNCHANGED <<tables, request, area, labor_cost, total_cost, suggestions,
                   caught, material_data, report_content, delivered, raised,
                   earlier>>

\* the application: runs started from the widgets
Next ==
    \/ \E req \in UIRequests : Calculate(req)
    \/ Display
    \/ CallAdvisory
    \/ \E text \in ProviderTexts : ProviderReturns(text)
    \/ \E reason \in ProviderErrors : ProviderFails(reason)
    \/ Report
    \/ Rerun

Spec == Init /\ [][Next]_vars

\* the script's own steps are taken once enabled; the provider's answer is
\* not the script's to give (line 94 sets no timeout)
FairSpec ==
    /\ Init
    /\ [][Next]_vars
    /\ WF_vars(Display)
    /\ WF_vars(CallAdvisory)
    /\ WF_vars(Report)

\* the application with the history of one earlier result
NextHistory ==
    \/ \E req \in UIRequests : Calculate(req)
    \/ Display
    \/ CallAdvisory
    \/ \E text \in ProviderTexts : ProviderReturns(text)
    \/ \E reason \in ProviderErrors : ProviderFails(reason)
    \/ Report
    \/ Rerun
    \/ NoteResult

HistorySpec == Init /\ [][NextHistory]_vars

\* the functions driven by a caller that bypasses the widgets
NextCaller ==
    \/ \E req \in AnyRequests : Calculate(req)
    \/ \E ms \in CallerMaterials : CostCall(ms)
    \/ Display
    \/ CallAdvisory
    \/ \E text \in ProviderTexts : ProviderReturns(text)
    \/ \E reason \in ProviderErrors : ProviderFails(reason)
    \/ Report
    \/ Rerun

SpecCaller == Init /\ [][NextCaller]_vars

----------------------------------------------------------------------------
(* Helpers of the properties.                                              *)

\* a run has computed its estimate
Computed == pc \in {"computed", "displayed", "advising", "advised", "done"}

RECURSIVE SumOver(_, _)
SumOver(f, S) ==
    IF S = {} THEN Zero
    ELSE LET x == CHOOSE y \in S : TRUE
         IN  Add(f[x], SumOver(f, S \ {x}))

SumMap(f) == SumOver(f, DOMAIN f)

Contains(s, sub) ==
    \E i \in 0..(Len(s) - Len(sub)) :
        \A j \in 1..Len(sub) : s[i + j] = sub[j]

ValidRequest(r) ==
    /\ r.length[1] > 0
    /\ r.width[1] > 0
    /\ r.wastage_factor \in 0..20
    /\ r.construction_type \in DOMAIN CONSTRUCTION_COEFFICIENTS

HalfCent == Rat(5, 1000)

\* x has at most two decimals
TwoDecimals(x) == 100 % x[2] = 0

PlasterDefault(labor) ==
    [length |-> Int2Rat(17), width |-> Int2Rat(70),
     construction_type |-> "Plaster (12mm)", include_labor |-> labor,
     wastage_factor |-> 5]

----------------------------------------------------------------------------
(* C1: every request with length <= 0, width <= 0, wastagePercent outside  *)
(* 0..20 or a constructionType that is no key of the Coefficient Table     *)
(* fails with InvalidInput and produces no estimate (no breakdown, no      *)
(* costs).  The code validates nothing: this is violated.                  *)
C1_InvalidInputFails ==
    (Computed /\ ~ValidRequest(request)) =>
        /\ raised = "InvalidInput"
        /\ cost_breakdown = EmptyMap
        /\ material_cost = Zero

----------------------------------------------------------------------------
(* C2: for every valid request and every material of the selected profile, *)
(* the post-wastage quantity is coeff * (length * width / 100) *           *)
(* (1 + wastage/100), i.e. 10000 * quantity = coeff * length * width *     *)
(* (100 + wastage); materialCost is the sum of quantity * rate; and the    *)
(* 17 x 70 Plaster run with 5% wastage gives area 1190, cement 18.7425     *)
(* costing 7497, sand 1.87425 costing 2811.375, materialCost 10308.375.    *)
C2_QuantityAndCost ==
    Computed =>
        LET profile == ShippedCoefficients[request.construction_type]
            priced == [m \in DOMAIN profile |->
                          Mul(materials[m], Int2Rat(ShippedRates[m].rate))]
        IN  /\ DOMAIN materials = DOMAIN profile
            /\ \A m \in DOMAIN profile :
                   Mul(materials[m], Int2Rat(10000)) =
                       Mul(Mul(Mul(profile[m], request.length), request.width),
                           Int2Rat(100 + request.wastage_factor))
            /\ material_cost = SumMap(priced)
            /\ (request \in {PlasterDefault(TRUE), PlasterDefault(FALSE)} =>
                   /\ area = Int2Rat(1190)
                   /\ materials["cement"] = Rat(187425, 10000)
                   /\ priced["cement"] = Int2Rat(7497)
                   /\ materials["sand"] = Rat(187425, 100000)
                   /\ priced["sand"] = Rat(2811375, 1000)
                   /\ material_cost = Rat(10308375, 1000))

C2_Witness ==
    /\ pc = "done"
    /\ request = PlasterDefault(TRUE)
    /\ materials["cement"] = Rat(187425, 10000)
    /\ material_cost = Rat(10308375, 1000)

----------------------------------------------------------------------------
(* C3 as stated: materialCost equals the sum of the cost fields of the     *)
(* breakdown's line items.  Violated: the line items hold round(cost, 2),  *)
(* the aggregate sums the unrounded costs.                                 *)
C3_Original ==
    Computed =>
        material_cost =
            SumMap([m \in DOMAIN cost_breakdown |-> cost_breakdown[m].cost])

(* C3 amended: materialCost is the sum of the unrounded costs quantity *   *)
(* rate of the priced materials, and differs from the sum of the line      *)
(* items' cost fields by at most 0.005 per line item.                      *)
C3_Amended ==
    Computed =>
        LET full == [m \in DOMAIN cost_breakdown |->
                        Mul(materials[m], Int2Rat(cost_breakdown[m].rate))]
            stored == [m \in DOMAIN cost_breakdown |-> cost_breakdown[m].cost]
            n == Cardinality(DOMAIN cost_breakdown)
        IN  /\ material_cost = SumMap(full)
            /\ Leq(AbsR(Sub(material_cost, SumMap(stored))),
                   Mul(Int2Rat(n), HalfCent))

C3_Witness ==
    /\ pc = "done"
    /\ request = PlasterDefault(TRUE)
    /\ material_cost = Rat(10308375, 1000)
    /\ SumMap([m \in DOMAIN cost_breakdown |-> cost_breakdown[m].cost])
           = Rat(1030838, 100)

----------------------------------------------------------------------------
(* C4: for every valid request laborCost is 0 when includeLabor is false,  *)
(* 30% of materialCost when it is true (10 * laborCost = 3 * materialCost),*)
(* and totalCost = materialCost + laborCost in both cases.                 *)
C4_LaborAndTotal ==
    Computed =>
        /\ (~request.include_labor => labor_cost = Zero)
        /\ (request.include_labor =>
               Mul(labor_cost, Int2Rat(10)) = Mul(material_cost, Int2Rat(3)))
        /\ Sub(total_cost, material_cost) = labor_cost

C4_Witness ==
    /\ pc = "done"
    /\ request = PlasterDefault(TRUE)
    /\ labor_cost = Rat(30925125, 10000)
    /\ total_cost = Rat(134008875, 10000)

----------------------------------------------------------------------------
(* C5 as stated: for a fixed construction type the quantity stored in      *)
(* every line item strictly increases when the area increases (wastage     *)
(* fixed) and when the wastage increases (area fixed).  Violated: the      *)
(* stored quantity is rounded to two decimals, and small quantities        *)
(* round to the same value.                                                *)
AreaIncreased ==
    /\ earlier # <<>>
    /\ Computed
    /\ earlier[1].request.construction_type = request.construction_type
    /\ earlier[1].request.wastage_factor = request.wastage_factor
    /\ Less(earlier[1].area, area)

WastageIncreased ==
    /\ earlier # <<>>
    /\ Computed
    /\ earlier[1].request.construction_type = request.construction_type
    /\ earlier[1].area = area
    /\ earlier[1].request.wastage_factor < request.wastage_factor

C5_Original ==
    (AreaIncreased \/ WastageIncreased) =>
        \A m \in DOMAIN cost_breakdown :
            Less(earlier[1].cost_breakdown[m].quantity,
                 cost_breakdown[m].quantity)

(* C5 amended: under the same conditions the quantity stored in every line *)
(* item does not decrease, and the unrounded post-wastage quantity the     *)
(* line item was made from strictly increases.                             *)
C5_Amended ==
    (AreaIncreased \/ WastageIncreased) =>
        \A m \in DOMAIN cost_breakdown :
            /\ Leq(earlier[1].cost_breakdown[m].quantity,
                   cost_breakdown[m].quantity)
            /\ Less(earlier[1].materials[m], materials[m])

\* a larger area where one stored quantity grew and another one did not
C5_Witness ==
    /\ AreaIncreased
    /\ \E m \in DOMAIN cost_breakdown :
           Less(earlier[1].cost_breakdown[m].quantity,
                cost_breakdown[m].quantity)
    /\ \E m \in DOMAIN cost_breakdown :
           /\ earlier[1].cost_breakdown[m].quantity
                  = cost_breakdown[m].quantity
           /\ Less(earlier[1].materials[m], materials[m])

----------------------------------------------------------------------------
(* C6: get_ai_suggestions never raises to its caller: a step of the        *)
(* advisory call leaves area, breakdown and costs as they were and ends    *)
(* the call with no exception raised, and when the provider call failed    *)
(* the returned text is non-empty and contains the failure reason.         *)
C6_AdvisoryNeverRaises ==
    [][/\ (pc = "displayed" => estimate' = estimate /\ raised' = "none")
       /\ (pc = "advising" =>
              /\ estimate' = estimate
              /\ raised' = "none"
              /\ pc' = "advised"
              /\ (caught' # <<>> =>
                     /\ suggestions' # <<>>
                     /\ Contains(suggestions', caught'[1])))]_vars

C6_Witness ==
    /\ pc = "done"
    /\ caught = << <<"429", "quota", "exceeded">> >>
    /\ Contains(suggestions, <<"429", "quota", "exceeded">>)
    /\ cost_breakdown # EmptyMap
    /\ report_content # <<>>

----------------------------------------------------------------------------
(* C7: once the estimate is computed, the metrics, the breakdown table,    *)
(* the summary and the JSON and CSV reports are all eventually delivered,  *)
(* even if the advisory call fails or never returns.  Violated: the        *)
(* reports are built after the advisory call, which has no timeout.        *)
C7_ResultEventuallyDelivered ==
    (pc = "computed") ~>
        ({"metrics", "table", "summary", "json", "csv"} \subseteq delivered)

----------------------------------------------------------------------------
(* C8: no call changes the Rate Table or the Coefficient Table, and a run  *)
(* with the same request as an earlier run returns the same result (area,  *)
(* quantities, breakdown, costs), whatever runs and advisory calls came    *)
(* in between.                                                             *)
C8_Pure ==
    /\ MATERIAL_RATES = ShippedRates
    /\ CONSTRUCTION_COEFFICIENTS = ShippedCoefficients
    /\ (earlier # <<>> /\ Computed /\ request = earlier[1].request =>
           Current = earlier[1])

\* the same request again, after the earlier result was noted
C8_Witness ==
    /\ earlier # <<>>
    /\ pc = "done"
    /\ request = earlier[1].request
    /\ caught # <<>>
    /\ material_cost # Zero
    /\ Current = earlier[1]

----------------------------------------------------------------------------
(* C9: a material without a Rate Table entry does not make the            *)
(* computation fail: it gets no line item and adds nothing to             *)
(* materialCost, while every material with a rate gets its line item;     *)
(* with the shipped tables every profile material has a rate, so a run's  *)
(* breakdown has one line item per profile material.                      *)
C9_UnpricedDropped ==
    /\ \A t \in DOMAIN ShippedCoefficients :
           DOMAIN ShippedCoefficients[t] \subseteq DOMAIN ShippedRates
    /\ (pc = "costed" \/ Computed) =>
           LET priced == DOMAIN materials \cap DOMAIN ShippedRates
           IN  /\ raised = "none"
               /\ DOMAIN cost_breakdown = priced
               /\ material_cost =
                      SumMap([m \in priced |->
                                 Mul(materials[m],
                                     Int2Rat(ShippedRates[m].rate))])
    /\ (Computed /\ request.construction_type \in DOMAIN ShippedCoefficients
           => DOMAIN cost_breakdown =
                  DOMAIN ShippedCoefficients[request.construction_type])

C9_Witness ==
    /\ pc = "costed"
    /\ DOMAIN materials = {"cement", "sand", "timber"}
    /\ DOMAIN cost_breakdown = {"cement", "sand"}
    /\ materials["timber"] = Int2Rat(2)
    /\ materials["cement"] = Rat(1, 8)
    /\ materials["sand"] = Rat(1, 8)
    /\ material_cost = Rat(475, 2)

----------------------------------------------------------------------------
(* C10 as stated: every line item holds the full-precision post-wastage    *)
(* quantity, and its cost is its own quantity times its own rate.          *)
(* Violated: calculate_cost rounds both fields when it builds the item.    *)
C10_Original ==
    Computed =>
        \A m \in DOMAIN cost_breakdown :
            /\ cost_breakdown[m].quantity = materials[m]
            /\ cost_breakdown[m].cost =
                   Mul(cost_breakdown[m].quantity,
                       Int2Rat(cost_breakdown[m].rate))

(* C10 amended: every line item holds the post-wastage quantity rounded to *)
(* two decimals (a two-decimal number within 0.005 of it) and the          *)
(* full-precision quantity times the rate rounded to two decimals; the     *)
(* unrounded values are the ones materialCost is summed from.              *)
C10_Amended ==
    Computed =>
        /\ \A m \in DOMAIN cost_breakdown :
               LET full == Mul(materials[m], Int2Rat(cost_breakdown[m].rate))
               IN  /\ TwoDecimals(cost_breakdown[m].quantity)
                   /\ Leq(AbsR(Sub(cost_breakdown[m].quantity, materials[m])),
                          HalfCent)
                   /\ TwoDecimals(cost_breakdown[m].cost)
                   /\ Leq(AbsR(Sub(cost_breakdown[m].cost, full)), HalfCent)
        /\ material_cost =
               SumMap([m \in DOMAIN cost_breakdown |->
                          Mul(materials[m], Int2Rat(cost_breakdown[m].rate))])

C10_Witness ==
    /\ pc = "done"
    /\ request = PlasterDefault(TRUE)
    /\ materials["cement"] = Rat(187425, 10000)
    /\ cost_breakdown["cement"].quantity = Rat(1874, 100)
    /\ cost_breakdown["cement"].cost = Int2Rat(7497)
    /\ cost_breakdown["sand"].cost = Rat(281138, 100)

====
